---- MODULE Spec2Model ----
(***************************************************************************)
(* ShiftBookTeleBot (src/main.py): a Telegram bot that logs a student in   *)
(* against a roster, lets the student pick a date and shift slots, and     *)
(* writes the confirmed selections to the SQLite table `bookings`.         *)
(*                                                                         *)
(* The model follows the module as Python executes it: where main.py       *)
(* defines a name twice (check_shift_limits, handle_confirmation) the      *)
(* later definition is the one every call reaches.  One action models one  *)
(* handler invocation, run to completion on one worker thread of the bot.  *)
(* An exception raised inside a handler ends it at that statement: what    *)
(* was assigned before stays, nothing after it runs, and no next-step      *)
(* handler is registered.                                                  *)
(*                                                                         *)
(* Button captions carry emoji in the source; here "[<-]" stands for the   *)
(* back arrow, "[v]" for the check mark and "[x]" for the cross mark.      *)
(***************************************************************************)
EXTENDS Integers, Sequences, FiniteSets, Bags, TLC

VARIABLES
    bookings,       \* table bookings: a bag of rows (student_id, shift_date, shift_type)
    user_sessions,  \* user_sessions: chat id -> session dict (a missing key is absent)
    next_step,      \* the next-step handler registered for each chat
    thread_local,   \* thread_local.conn of the worker threads: the bag of their states
    today,          \* datetime.now(tz).date(), as the day of November 2026
    reply           \* what the last handler sent to its chat, or the exception it raised

vars == <<bookings, user_sessions, next_step, thread_local, today, reply>>

-----------------------------------------------------------------------------
(* Bounds of the model *)

NumChats == 1
NumThreads == 4
MaxPending == 2
MaxRows == 3
MaxTicks == 1
MaxWeekRows == 4
MaxMonthRows == 6
NumRaceChats == 2

Chats == 1..NumChats

-----------------------------------------------------------------------------
(* Dates.  A datetime.date is modelled as its day of November 2026; the    *)
(* TEXT column shift_date and the user's input are strings.                *)

\* date.isoformat() of the days of November 2026
IsoNov ==
  <<
    "2026-11-01", "2026-11-02", "2026-11-03", "2026-11-04", "2026-11-05",
    "2026-11-06", "2026-11-07", "2026-11-08", "2026-11-09", "2026-11-10",
    "2026-11-11", "2026-11-12", "2026-11-13", "2026-11-14", "2026-11-15",
    "2026-11-16", "2026-11-17", "2026-11-18", "2026-11-19", "2026-11-20",
    "2026-11-21", "2026-11-22", "2026-11-23", "2026-11-24", "2026-11-25",
    "2026-11-26", "2026-11-27", "2026-11-28", "2026-11-29", "2026-11-30"
  >>

\* the same days written without the leading zero, which strptime also accepts
ShortNov ==
  <<
    "2026-11-1", "2026-11-2", "2026-11-3", "2026-11-4", "2026-11-5",
    "2026-11-6", "2026-11-7", "2026-11-8", "2026-11-9"
  >>

isoformat(d) == IsoNov[d]

\* datetime.strptime(s, "%Y-%m-%d").date(); 0 stands for ValueError
strptime(s) ==
    IF \E d \in DOMAIN IsoNov : IsoNov[d] = s
    THEN CHOOSE d \in DOMAIN IsoNov : IsoNov[d] = s
    ELSE IF \E d \in DOMAIN ShortNov : ShortNov[d] = s
    THEN CHOOSE d \in DOMAIN ShortNov : ShortNov[d] = s
    ELSE 0

\* whether strptime(s, "%Y-%m-%d") parses s; it raises ValueError otherwise
IsDate(s) == strptime(s) # 0

\* the day a stored ISO string denotes: ISO strings of one year order as their dates
IsoDay(s) == CHOOSE d \in DOMAIN IsoNov : IsoNov[d] = s

\* date.weekday(): Monday is 0; 2026-11-02 is a Monday
weekday(d) == (d + 5) % 7

\* the first day of the bot's life in the model, and the first and last day of the month
Today0 == 3
MonthFirst == 1
MonthLast == 30

-----------------------------------------------------------------------------
(* Reference data and message texts *)

\* table students, as db_setup.py fills it: student_id -> (name, is_restricted)
students ==
    [ id \in {"7654321", "1234567", "2401236", "2401554", "2402043", "2402492"} |->
        CASE id = "7654321" -> [name |-> "CONG", is_restricted |-> 0]
          [] id = "1234567" -> [name |-> "YING", is_restricted |-> 1]
          [] id = "2401236" -> [name |-> "MUHAMMED IRFAN BIN SHAFARUDIN", is_restricted |-> 1]
          [] id = "2401554" -> [name |-> "RYAN TAN YONG SOON", is_restricted |-> 1]
          [] id = "2402043" -> [name |-> "VIC GERSUN MONTANO PAMPLONA", is_restricted |-> 1]
          [] id = "2402492" -> [name |-> "JESSICA CHOY ING CHOY", is_restricted |-> 1] ]

\* the shift catalog of handle_date_selection, in the order of the source
day_shifts == <<"morning", "afternoon1", "afternoon2", "afternoon3">>
night_shifts == <<"night1", "night2">>

\* the texts a user sends in the model
IdTexts == {"7654321", "1234567"}
NameTexts == {"CONG", " YING ", "ying"}
DateTexts == {"2026-11-03", "2026-11-3", "2026-11-05", "2026-11-12"}
ShiftTexts == {"morning", "afternoon1", "Night1"}
ButtonTexts ==
    {"[<-] Back to Date", "[v] Proceed to Confirm", "[v] Confirm All",
     "Confirm All", "Cancel All"}
CommandTexts == {"/start", "/reserve", "/cancel"}
Texts == IdTexts \cup NameTexts \cup DateTexts \cup ShiftTexts \cup ButtonTexts \cup CommandTexts

\* str.strip(): only " YING " carries surrounding blanks
strip(s) == IF s = " YING " THEN "YING" ELSE s

\* str.lower() on the texts of the model
lower(s) ==
    CASE s = "CONG" -> "cong"
      [] s = "YING" -> "ying"
      [] s = "Night1" -> "night1"
      [] s = "[<-] Back to Date" -> "[<-] back to date"
      [] s = "[v] Proceed to Confirm" -> "[v] proceed to confirm"
      [] s = "[v] Confirm All" -> "[v] confirm all"
      [] s = "Confirm All" -> "confirm all"
      [] s = "Cancel All" -> "cancel all"
      [] OTHER -> s

-----------------------------------------------------------------------------
(* Python dicts and lists *)

\* {}: the dict with no key
EmptyDict == <<>>

\* d.get(k, default)
Get(d, k, default) == IF k \in DOMAIN d THEN d[k] ELSE default

\* d[k] = v
Put(d, k, v) == [x \in (DOMAIN d) \cup {k} |-> IF x = k THEN v ELSE d[x]]

\* x in list
InList(x, list) == \E i \in DOMAIN list : list[i] = x

\* [x for x in list if x not in taken]
NotTaken(list, taken) ==
    LET keep(x) == x \notin taken IN SelectSeq(list, keep)

\* no next-step handler registered
NoStep == [fn |-> "none", arg |-> ""]
Step(f) == [fn |-> f, arg |-> ""]

\* the message the bot sent last (kind), with the list it showed, or the exception raised
Reply(c, k) ==
    [chat |-> c, kind |-> k, date_str |-> "", shifts |-> <<>>, summary |-> <<>>]

-----------------------------------------------------------------------------
(* Database access *)

\* get_db(): a thread connects once and afterwards gets the connection it stored,
\* open or closed
get_db(conn) == IF conn = "unset" THEN "open" ELSE conn

\* conn.cursor() raises sqlite3.ProgrammingError on a closed connection
CursorRaises(conn) == get_db(conn) = "closed"

\* validate_student: SELECT * FROM students WHERE student_id = ? AND name = ?
validate_student(student_id, name) ==
    student_id \in DOMAIN students /\ students[student_id].name = name

\* SELECT shift_type FROM bookings WHERE shift_date = ?  (the raw text of the user)
TakenOn(b, date_str) ==
    {r.shift_type : r \in {x \in BagToSet(b) : x.shift_date = date_str}}

\* SELECT COUNT(*) FROM bookings WHERE student_id = ? AND shift_date BETWEEN lo AND hi
RECURSIVE SumCopies(_, _)
SumCopies(b, rows) ==
    IF rows = {} THEN 0
    ELSE LET r == CHOOSE x \in rows : TRUE
         IN CopiesIn(r, b) + SumCopies(b, rows \ {r})

CountBetween(b, student_id, lo, hi) ==
    SumCopies(b, {r \in BagToSet(b) :
                    /\ r.student_id = student_id
                    /\ lo <= IsoDay(r.shift_date)
                    /\ IsoDay(r.shift_date) <= hi})

\* the weekly count of check_shift_limits: Monday to Sunday of the week of shift_date
WeeklyCount(b, student_id, shift_date) ==
    LET start_of_week == shift_date - weekday(shift_date)
        end_of_week == start_of_week + 6
    IN CountBetween(b, student_id, start_of_week, end_of_week)

\* the monthly count check_shift_limits is written to take
MonthlyCount(b, student_id, shift_date) ==
    CountBetween(b, student_id, MonthFirst, MonthLast)

-----------------------------------------------------------------------------
(* The quota check, as the second definition of check_shift_limits has it *)

ExemptDays == 5
WeeklyLimit == 4
MonthlyLimit == 10

\* month_end = (next_month - timedelta(days=next_month.day)).date(): shift_date is a
\* datetime.date, so is the difference, and a datetime.date has no method date();
\* the statement raises AttributeError every time it runs
MonthEndRaises == TRUE

\* check_shift_limits with the exemption window one day short
check_shift_limits_short_window(b, td, conn, student_id, shift_date) ==
    IF shift_date - td < ExemptDays
    THEN [ret |-> "True", conn |-> conn]
    ELSE IF CursorRaises(conn)
    THEN [ret |-> "ProgrammingError", conn |-> conn]
    ELSE [ret |-> "AttributeError", conn |-> get_db(conn)]

\* check_shift_limits(student_id, shift_date) on a thread whose connection is conn:
\* what it returns or raises (ret) and the connection it leaves behind
check_shift_limits(b, td, conn, student_id, shift_date) ==
    IF shift_date - td <= ExemptDays
    THEN [ret |-> "True", conn |-> conn]
    ELSE IF CursorRaises(conn)
    THEN [ret |-> "ProgrammingError", conn |-> conn]
    ELSE IF MonthEndRaises
    THEN [ret |-> "AttributeError", conn |-> get_db(conn)]
    ELSE [ret |-> IF /\ WeeklyCount(b, student_id, shift_date) < WeeklyLimit
                     /\ MonthlyCount(b, student_id, shift_date) < MonthlyLimit
                  THEN "True" ELSE "False",
          conn |-> "closed"]

-----------------------------------------------------------------------------
(* Handlers.  Each handler is an operator from the state it reads to its   *)
(* outcome: the session dict, the thread's connection, the next-step       *)
(* handler, the reply and the table it leaves.                             *)

Outcome(sess, conn, step, rep, b) ==
    [sess |-> sess, conn |-> conn, step |-> step, reply |-> rep, bookings |-> b]

\* all_shifts with the night shifts added for everyone
all_shifts_for_everyone(session) == day_shifts \o night_shifts

\* all_shifts of handle_date_selection: night shifts only if the session is not restricted
all_shifts(session) ==
    IF ~Get(session, "is_restricted", FALSE)
    THEN day_shifts \o night_shifts
    ELSE day_shifts

\* the one-shift-per-day rule left out
already_never(session, shift_date) == <<>>

\* the one-shift-per-day rule of handle_shift_selection: the pending selections
\* of a restricted session on shift_date
already(session, shift_date) ==
    IF Get(session, "is_restricted", FALSE)
    THEN LET on(bk) == bk.date = shift_date
         IN SelectSeq(Get(session, "pending_bookings", <<>>), on)
    ELSE <<>>

\* the INSERT loop of handle_confirmation
RECURSIVE InsertAll(_, _, _)
InsertAll(b, student_id, pending) ==
    IF pending = <<>> THEN b
    ELSE InsertAll(b (+) SetToBag({[student_id |-> student_id,
                                    shift_date |-> isoformat(Head(pending).date),
                                    shift_type |-> Head(pending).shift]}),
                   student_id, Tail(pending))

\* DELETE FROM bookings WHERE student_id = ? AND shift_date >= ?
DeleteFuture(b, student_id, td) ==
    LET keep == {r \in BagToSet(b) :
                    ~(r.student_id = student_id /\ IsoDay(r.shift_date) >= td)}
    IN [r \in keep |-> b[r]]

\* the connection field of the outcome of a handler that never calls get_db
NoConn == "n/a"

\* handle_start and handle_reserve: reset the session and ask for the student id
start_outcome(c, kind) ==
    Outcome(EmptyDict, NoConn, Step("handle_student_id"), Reply(c, kind), bookings)

\* handle_student_id: store the id as typed, before any check
student_id_outcome(c, session, text) ==
    LET student_id == strip(text)
    IN Outcome(Put(session, "student_id", student_id), NoConn,
               [fn |-> "validate_user", arg |-> student_id],
               Reply(c, "ask_name"), bookings)

\* validate_user(message, student_id)
validate_user_outcome(c, session, conn, text, student_id) ==
    LET name == strip(text)
    IN IF CursorRaises(conn)
       THEN Outcome(session, conn, NoStep, Reply(c, "ProgrammingError"), bookings)
       ELSE IF validate_student(student_id, name)
       THEN Outcome(
              Put(Put(Put(session, "name", name),
                      "is_restricted", students[student_id].is_restricted # 0),
                  "pending_bookings", <<>>),
              get_db(conn), Step("handle_date_selection"),
              Reply(c, "login_ok"), bookings)
       ELSE Outcome(session, get_db(conn), NoStep, Reply(c, "login_failed"), bookings)

\* handle_date_selection
date_selection_outcome(c, session, conn, text) ==
    LET date_str == strip(text)
    IN IF ~IsDate(date_str)
       THEN Outcome(session, conn, NoStep, Reply(c, "invalid_date"), bookings)
       ELSE
         LET s1 == Put(session, "current_date", strptime(date_str))
         IN IF CursorRaises(conn)
            THEN Outcome(s1, conn, NoStep, Reply(c, "ProgrammingError"), bookings)
            ELSE
              LET taken == TakenOn(bookings, date_str)
                  available_shifts == NotTaken(all_shifts(s1), taken)
              IN IF available_shifts = <<>>
                 THEN Outcome(s1, "closed", NoStep,
                              [Reply(c, "no_available") EXCEPT !.date_str = date_str],
                              bookings)
                 ELSE Outcome(Put(s1, "available_shifts", available_shifts), "closed",
                              Step("handle_shift_selection"),
                              [Reply(c, "available") EXCEPT
                                  !.date_str = date_str, !.shifts = available_shifts],
                              bookings)

\* the summary made to write the pending selections to the table as it shows them
summary_outcome_saving(c, session, conn, kind) ==
    LET pending == Get(session, "pending_bookings", <<>>)
    IN IF pending = <<>>
       THEN Outcome(session, conn, NoStep, Reply(c, "none_selected"), bookings)
       ELSE Outcome(session, conn, Step("handle_confirmation"),
                    [Reply(c, kind) EXCEPT !.summary = pending],
                    InsertAll(bookings, Get(session, "student_id", ""), pending))

\* show_booking_summary and show_summary: both end by registering handle_confirmation
summary_outcome(c, session, conn, kind) ==
    LET pending == Get(session, "pending_bookings", <<>>)
    IN IF pending = <<>>
       THEN Outcome(session, conn, NoStep, Reply(c, "none_selected"), bookings)
       ELSE Outcome(session, conn, Step("handle_confirmation"),
                    [Reply(c, kind) EXCEPT !.summary = pending], bookings)

\* handle_shift_selection
shift_selection_outcome(c, session, conn, text) ==
    LET shift_type == lower(strip(text))
        shift_date == Get(session, "current_date", 0)
    IN IF shift_type = "[<-] back to date"
       THEN Outcome(session, conn, Step("handle_date_selection"), Reply(c, "back"), bookings)
       ELSE IF shift_type = "[v] proceed to confirm"
       THEN summary_outcome(c, session, conn, "summary")
       ELSE IF ~InList(shift_type, Get(session, "available_shifts", <<>>))
       THEN Outcome(session, conn, NoStep, Reply(c, "invalid_shift"), bookings)
       ELSE IF already(session, shift_date) # <<>>
       THEN Outcome(session, conn, NoStep, Reply(c, "one_per_day"), bookings)
       ELSE
         LET limits == check_shift_limits(bookings, today, conn,
                                          Get(session, "student_id", ""), shift_date)
         IN IF limits.ret \in {"ProgrammingError", "AttributeError"}
            THEN Outcome(session, limits.conn, NoStep, Reply(c, limits.ret), bookings)
            ELSE IF limits.ret = "False"
            THEN Outcome(session, limits.conn, NoStep, Reply(c, "limit"), bookings)
            ELSE Outcome(
                   Put(session, "pending_bookings",
                       Append(Get(session, "pending_bookings", <<>>),
                              [date |-> shift_date, shift |-> shift_type])),
                   limits.conn, Step("handle_shift_selection"),
                   Reply(c, "saved"), bookings)

\* handle_confirmation, the second definition
confirmation_outcome(c, session, conn, text) ==
    LET user_input == strip(text)
        student_id == Get(session, "student_id", "")
        pending == Get(session, "pending_bookings", <<>>)
    IN IF user_input = "Confirm All"
       THEN IF pending = <<>>
            THEN Outcome(session, conn, NoStep, Reply(c, "no_bookings"), bookings)
            ELSE IF CursorRaises(conn)
            THEN Outcome(session, conn, NoStep, Reply(c, "ProgrammingError"), bookings)
            ELSE Outcome(EmptyDict, "closed", NoStep,
                         [Reply(c, "booked") EXCEPT !.summary = pending],
                         InsertAll(bookings, student_id, pending))
       ELSE IF user_input = "Cancel All"
       THEN Outcome(Put(session, "pending_bookings", <<>>), conn, NoStep,
                    Reply(c, "discarded"), bookings)
       ELSE summary_outcome(c, session, conn, "retry")

\* handle_cancel
cancel_outcome(c, session, conn) ==
    LET student_id == Get(session, "student_id", "")
    IN IF student_id = ""
       THEN Outcome(session, conn, NoStep, Reply(c, "not_logged_in"), bookings)
       ELSE IF CursorRaises(conn)
       THEN Outcome(session, conn, NoStep, Reply(c, "ProgrammingError"), bookings)
       ELSE LET after == DeleteFuture(bookings, student_id, today)
            IN Outcome(session, "closed", NoStep,
                       Reply(c, IF after # bookings THEN "cancelled" ELSE "nothing_to_cancel"),
                       after)

-----------------------------------------------------------------------------
(* The state machine *)

\* The pool of worker threads.  The bot hands each handler to whichever worker is
\* free, and workers differ only in the connection their thread_local holds: the
\* pool is the bag of those connection states ("unset": no attribute conn yet).
Pool(unset, open, closed) ==
    [s \in {x \in {"unset", "open", "closed"} :
              (x = "unset" /\ unset > 0) \/ (x = "open" /\ open > 0)
              \/ (x = "closed" /\ closed > 0)} |->
        IF s = "unset" THEN unset ELSE IF s = "open" THEN open ELSE closed]

Init ==
    /\ bookings = EmptyBag
    /\ user_sessions = [c \in Chats |-> EmptyDict]
    /\ next_step = [c \in Chats |-> NoStep]
    /\ thread_local = Pool(NumThreads, 0, 0)
    /\ today = Today0
    /\ reply = Reply(0, "init")

\* the bounds of the model on what a handler leaves
WithinBounds(o) ==
    /\ Len(Get(o.sess, "pending_bookings", <<>>)) <= MaxPending
    /\ BagCardinality(o.bookings) <= MaxRows \/ o.bookings = bookings

\* the handler of chat c ends with outcome o without having called get_db
ApplySession(c, o) ==
    /\ WithinBounds(o)
    /\ user_sessions' = [user_sessions EXCEPT ![c] = o.sess]
    /\ next_step' = [next_step EXCEPT ![c] = o.step]
    /\ reply' = o.reply
    /\ bookings' = o.bookings
    /\ UNCHANGED <<thread_local, today>>

\* the handler of chat c, run on a worker whose connection was conn, ends with outcome o
Apply(c, conn, o) ==
    /\ WithinBounds(o)
    /\ user_sessions' = [user_sessions EXCEPT ![c] = o.sess]
    /\ next_step' = [next_step EXCEPT ![c] = o.step]
    /\ reply' = o.reply
    /\ bookings' = o.bookings
    /\ thread_local' = (thread_local (-) SetToBag({conn})) (+) SetToBag({o.conn})
    /\ today' = today

\* A message of a chat with a next-step handler goes to that handler, whatever its
\* text; the command handlers see only the messages of a chat that has none.
\* (/location and /support answer with fixed text and touch no state.)
handle_start(c, text) ==
    /\ next_step[c].fn = "none"
    /\ text = "/start"
    /\ ApplySession(c, start_outcome(c, "start"))

handle_reserve(c, text) ==
    /\ next_step[c].fn = "none"
    /\ text = "/reserve"
    /\ ApplySession(c, start_outcome(c, "reserve"))

handle_cancel(c, text, conn) ==
    /\ next_step[c].fn = "none"
    /\ text = "/cancel"
    /\ Apply(c, conn, cancel_outcome(c, user_sessions[c], conn))

handle_student_id(c, text) ==
    /\ next_step[c].fn = "handle_student_id"
    /\ ApplySession(c, student_id_outcome(c, user_sessions[c], text))

validate_user(c, text, conn) ==
    /\ next_step[c].fn = "validate_user"
    /\ Apply(c, conn, validate_user_outcome(c, user_sessions[c], conn, text,
                                            next_step[c].arg))

handle_date_selection(c, text, conn) ==
    /\ next_step[c].fn = "handle_date_selection"
    /\ Apply(c, conn, date_selection_outcome(c, user_sessions[c], conn, text))

handle_shift_selection(c, text, conn) ==
    /\ next_step[c].fn = "handle_shift_selection"
    /\ Apply(c, conn, shift_selection_outcome(c, user_sessions[c], conn, text))

handle_confirmation(c, text, conn) ==
    /\ next_step[c].fn = "handle_confirmation"
    /\ Apply(c, conn, confirmation_outcome(c, user_sessions[c], conn, text))

\* midnight in Asia/Singapore: datetime.now(tz).date() moves on
Tick ==
    /\ today < Today0 + MaxTicks
    /\ today' = today + 1
    /\ UNCHANGED <<bookings, user_sessions, next_step, thread_local, reply>>

\* the connections a handler can find on the worker it runs on
Conns == BagToSet(thread_local)

\* the chats that talk to the bot
Talking == DOMAIN user_sessions

\* the student ids typed in the model: the two of the roster and one that is none
StudentIdTexts == IdTexts \cup {"/cancel"}

Next ==
    \/ \E c \in Talking, text \in Texts : handle_start(c, text)
    \/ \E c \in Talking, text \in Texts : handle_reserve(c, text)
    \/ \E c \in Talking, text \in Texts, conn \in Conns : handle_cancel(c, text, conn)
    \/ \E c \in Talking, text \in StudentIdTexts : handle_student_id(c, text)
    \/ \E c \in Talking, text \in Texts, conn \in Conns : validate_user(c, text, conn)
    \/ \E c \in Talking, text \in Texts, conn \in Conns : handle_date_selection(c, text, conn)
    \/ \E c \in Talking, text \in Texts, conn \in Conns : handle_shift_selection(c, text, conn)
    \/ \E c \in Talking, text \in Texts, conn \in Conns : handle_confirmation(c, text, conn)
    \/ Tick

Spec == Init /\ [][Next]_vars

-----------------------------------------------------------------------------
(* The quota check over a populated table.  A session has logged in, the   *)
(* clock stands at QuotaToday and the session has just been shown the      *)
(* shifts of a date between 3 and 10 days ahead; the table holds rows of   *)
(* its identity in the week of 2 November, in the week of 9 November and   *)
(* elsewhere in the month, none dated more than ExemptDays ahead.  The     *)
(* steps are the slot selections of that session.                          *)

QuotaToday == Today0 + 1
QuotaDates == {QuotaToday + 3, QuotaToday + 5, QuotaToday + 6, QuotaToday + 8,
               QuotaToday + 10}

Row(student_id, shift_date, shift_type) ==
    [student_id |-> student_id, shift_date |-> shift_date, shift_type |-> shift_type]

\* n copies of one row
Copies(row, n) == IF n = 0 THEN EmptyBag ELSE [r \in {row} |-> n]

QuotaStore(student_id, first_week, second_week, elsewhere) ==
    Copies(Row(student_id, "2026-11-02", "afternoon3"), first_week)
    (+) Copies(Row(student_id, "2026-11-09", "afternoon3"), second_week)
    (+) Copies(Row(student_id, "2026-11-01", "afternoon3"), elsewhere)

\* the session dict validate_user leaves for a student of the roster
LoggedIn(student_id) ==
    validate_user_outcome(1, Put(EmptyDict, "student_id", student_id), "unset",
                          students[student_id].name, student_id).sess

QuotaInit ==
    \E student_id \in IdTexts, d \in QuotaDates,
       first_week \in 0..MaxWeekRows, second_week \in 0..MaxWeekRows,
       elsewhere \in 0..MaxMonthRows :
        /\ bookings = QuotaStore(student_id, first_week, second_week, elsewhere)
        /\ today = QuotaToday
        /\ LET o == date_selection_outcome(1, LoggedIn(student_id), "open", isoformat(d))
           IN /\ user_sessions = [c \in {1} |-> o.sess]
              /\ next_step = [c \in {1} |-> o.step]
              /\ reply = o.reply
        /\ thread_local = Pool(NumThreads - 1, 0, 1)

QuotaNext ==
    \E c \in Talking, text \in ShiftTexts, conn \in Conns :
        handle_shift_selection(c, text, conn)

SpecQuota == QuotaInit /\ [][QuotaNext]_vars

-----------------------------------------------------------------------------
(* Two chats at once, each going from /start to Confirm All on the same    *)
(* date and slot, on a pool with a worker left for every database call.    *)

RaceChats == 1..NumRaceChats
RaceTexts ==
    {"/start", "7654321", "1234567", "CONG", " YING ", "2026-11-03", "morning",
     "[v] Proceed to Confirm", "Confirm All"}

RaceInit ==
    /\ bookings = EmptyBag
    /\ user_sessions = [c \in RaceChats |-> EmptyDict]
    /\ next_step = [c \in RaceChats |-> NoStep]
    /\ thread_local = Pool(NumThreads, 0, 0)
    /\ today = Today0
    /\ reply = Reply(0, "init")

RaceNext ==
    \/ \E c \in Talking, text \in RaceTexts : handle_start(c, text)
    \/ \E c \in Talking, text \in IdTexts : handle_student_id(c, text)
    \/ \E c \in Talking, text \in RaceTexts, conn \in Conns : validate_user(c, text, conn)
    \/ \E c \in Talking, text \in RaceTexts, conn \in Conns :
          handle_date_selection(c, text, conn)
    \/ \E c \in Talking, text \in RaceTexts, conn \in Conns :
          handle_shift_selection(c, text, conn)
    \/ \E c \in Talking, text \in RaceTexts, conn \in Conns :
          handle_confirmation(c, text, conn)

SpecRace == RaceInit /\ [][RaceNext]_vars

-----------------------------------------------------------------------------
(* Properties *)

Restricted(c) == Get(user_sessions[c], "is_restricted", FALSE)
Pending(c) == Get(user_sessions[c], "pending_bookings", <<>>)
Catalog == {"morning", "afternoon1", "afternoon2", "afternoon3", "night1", "night2"}
NightSlots == {"night1", "night2"}
Range(list) == {list[i] : i \in DOMAIN list}

\* the rows of the table booked for (shift_date, shift_type), counted with repetition
RowsFor(b, shift_date, shift_type) ==
    SumCopies(b, {r \in BagToSet(b) :
                    r.shift_date = shift_date /\ r.shift_type = shift_type})

\* C1: in every reachable state of the table, no two booking rows share the same
\* (date, slot).
C1_UniqueDateSlot ==
    \A r \in BagToSet(bookings) : RowsFor(bookings, r.shift_date, r.shift_type) = 1

\* C2: when two sessions of different identities hold the same (date, slot) pending
\* and both confirm, the second commit does not insert the pair and does not list it
\* in its success summary: no pair listed by a "booked" reply is held in the table
\* by two different identities.
C2_SecondCommitConflicts ==
    reply.kind = "booked" =>
        \A i \in DOMAIN reply.summary :
            ~ \E r1, r2 \in BagToSet(bookings) :
                /\ r1.shift_date = isoformat(reply.summary[i].date)
                /\ r2.shift_date = r1.shift_date
                /\ r1.shift_type = reply.summary[i].shift
                /\ r2.shift_type = r1.shift_type
                /\ r1.student_id # r2.student_id

\* the replies of handle_shift_selection that tell what check_shift_limits did
QuotaReplies == {"saved", "limit", "AttributeError", "ProgrammingError"}

\* the session whose slot selection was answered last, and the date it had chosen
Asker == user_sessions[reply.chat]
AskedDate == Get(Asker, "current_date", 0)

\* C3: for every identity and every date with date - today <= 5 days, the quota check
\* permits the selection, whatever the identity's weekly and monthly counts are.
C3_ExemptionPermits ==
    (reply.kind \in QuotaReplies /\ AskedDate - today <= ExemptDays)
        => reply.kind = "saved"

\* C3, its case: a selection 3 days ahead is permitted to an identity that already
\* has 4 bookings in the week of the date and 10 in its month.
C3_Witness ==
    /\ reply.kind = "saved"
    /\ AskedDate - today = 3
    /\ WeeklyCount(bookings, Asker["student_id"], AskedDate) = 4
    /\ MonthlyCount(bookings, Asker["student_id"], AskedDate) = 10

\* C4: for every identity and every date more than 5 days ahead, the quota check run
\* on a usable connection returns a decision, and it permits exactly when the
\* identity's bookings in the week of the date number fewer than 4 and those in its
\* month fewer than 10.
C4_QuotaDecides ==
    (reply.kind \in {"saved", "limit", "AttributeError"} /\ AskedDate - today > ExemptDays)
        => /\ reply.kind \in {"saved", "limit"}
           /\ reply.kind = "saved" <=>
                /\ WeeklyCount(bookings, Asker["student_id"], AskedDate) < WeeklyLimit
                /\ MonthlyCount(bookings, Asker["student_id"], AskedDate) < MonthlyLimit

BookedOn(b, d) == {r.shift_type : r \in {x \in BagToSet(b) : IsoDay(x.shift_date) = d}}

\* C6: the shifts the availability query offers for a date are exactly the catalog,
\* minus the night shifts when the identity is restricted, minus the shifts already
\* booked by anyone on that date.
C6_OfferedExact ==
    reply.kind \in {"available", "no_available"} =>
        Range(reply.shifts) =
            (Catalog \ (IF Restricted(reply.chat) THEN NightSlots ELSE {}))
                \ BookedOn(bookings, strptime(reply.date_str))

\* C7: the availability query called again for the same date and identity, with no
\* commit or cancellation in between, returns the same shifts: asked again in the
\* state the first call left, on whichever worker, it gives the same answer.
C7_Idempotent ==
    reply.kind \in {"available", "no_available"} =>
        \A conn \in Conns :
            date_selection_outcome(reply.chat, Asker, conn, reply.date_str).reply = reply

\* at most one pending selection per date
OnePerDate(pending) ==
    \A i, j \in DOMAIN pending : pending[i].date = pending[j].date => i = j

\* a slot selection of chat c on a date that already has a pending selection
SecondOnDate(c, text) ==
    /\ InList(lower(strip(text)), Get(user_sessions[c], "available_shifts", <<>>))
    /\ \E i \in DOMAIN Pending(c) :
          Pending(c)[i].date = Get(user_sessions[c], "current_date", 0)

\* C8: a session of a restricted identity holds at most one pending selection per
\* date, and a slot selection on a date that already has one is refused with the
\* one-shift-per-day message, whatever the quota check would say, and leaves the
\* session and the table as they were.
C8_OnePendingPerDate ==
    /\ [](\A c \in Talking : Restricted(c) => OnePerDate(Pending(c)))
    /\ [][\A c \in Talking, text \in ShiftTexts, conn \in Conns :
            (Restricted(c) /\ SecondOnDate(c, text)
                /\ handle_shift_selection(c, text, conn))
            => /\ user_sessions'[c] = user_sessions[c]
               /\ bookings' = bookings
               /\ reply'.kind = "one_per_day"]_vars

\* C8, its case: a restricted session holding one selection was refused a second one
\* on the same date.
C8_Witness ==
    \E c \in Talking :
        /\ Restricted(c)
        /\ reply.chat = c
        /\ reply.kind = "one_per_day"
        /\ Len(Pending(c)) = 1
        /\ Pending(c)[1].date = Get(user_sessions[c], "current_date", 0)

\* the rows of student_id on the day d, counted with repetition
RowsOfOn(b, student_id, d) ==
    SumCopies(b, {r \in BagToSet(b) :
                    r.student_id = student_id /\ IsoDay(r.shift_date) = d})

\* C9: in every reachable state of the table, a restricted identity holds at most one
\* booking per date and no booking of a night shift.
C9_RestrictedCommitted ==
    \A r \in BagToSet(bookings) :
        (r.student_id \in DOMAIN students /\ students[r.student_id].is_restricted # 0)
            => /\ RowsOfOn(bookings, r.student_id, IsoDay(r.shift_date)) <= 1
               /\ r.shift_type \notin NightSlots

\* C10: no booking row of identity X is inserted or deleted by a session that has not
\* passed the roster check for X since its last reset: whenever the table changes,
\* the session of the chat that acted holds a name matching its student id in the
\* roster, and every row that changed is a row of that student id.
C10_AuthRequired ==
    [][bookings' # bookings =>
         LET session == user_sessions[reply'.chat]
         IN /\ "name" \in DOMAIN session
            /\ validate_student(session["student_id"], session["name"])
            /\ \A r \in BagToSet(bookings) \cup BagToSet(bookings') :
                 CopiesIn(r, bookings') # CopiesIn(r, bookings)
                     => r.student_id = session["student_id"]]_vars

\* the session of chat c holds no successful roster check: validate_user has not
\* stored a name in it since it was last emptied
Unauthenticated(c) == "name" \notin DOMAIN user_sessions[c]

\* C11: a successful Confirm leaves the chat with an empty session and no step
\* registered, and from a session that holds no successful roster check (as the one
\* Confirm leaves, until validate_user accepts a name again) no handler of the chat
\* inserts or deletes a booking row.
C11_ConfirmResets ==
    /\ [](reply.kind = "booked" =>
            /\ user_sessions[reply.chat] = EmptyDict
            /\ next_step[reply.chat] = NoStep)
    /\ [][\A c \in Talking :
            (Unauthenticated(c) /\ reply'.chat = c) => bookings' = bookings]_vars

\* the student id a session was given, "" if none
SessionId(c) == Get(user_sessions[c], "student_id", "")

\* C12: /cancel sent by a session with a student id removes exactly the rows of that
\* id dated today or later: afterwards the id has no such row, and every row of the
\* id dated before today and every row of any other id is in the table as before.
C12_CancelRemovesOwnFuture ==
    [][\A c \in Talking, conn \in Conns :
         (SessionId(c) # "" /\ handle_cancel(c, "/cancel", conn))
         => \A r \in BagToSet(bookings) \cup BagToSet(bookings') :
               CopiesIn(r, bookings') =
                  IF r.student_id = SessionId(c) /\ IsoDay(r.shift_date) >= today
                  THEN 0
                  ELSE CopiesIn(r, bookings)]_vars

\* C13: in every state of an authenticated session a cancellation can be given (the
\* chat's /cancel reaches handle_cancel, or the confirm prompt takes Cancel All), and
\* a cancellation leaves the session authenticated, with an empty pending list and
\* with handle_date_selection waiting for the next message.
C13_CancelReturnsToIdle ==
    /\ [](\A c \in Talking :
            ~Unauthenticated(c) => next_step[c].fn \in {"none", "handle_confirmation"})
    /\ [][\A c \in Talking, conn \in Conns :
            (/\ ~Unauthenticated(c)
             /\ \/ handle_cancel(c, "/cancel", conn)
                \/ handle_confirmation(c, "Cancel All", conn))
            => /\ "name" \in DOMAIN user_sessions'[c]
               /\ Get(user_sessions'[c], "pending_bookings", <<>>) = <<>>
               /\ next_step'[c].fn = "handle_date_selection"]_vars

\* a text that is neither a shift offered to chat c nor one of the two buttons of the
\* slot prompt
UnrecognizedSlot(c, text) ==
    /\ lower(strip(text)) \notin {"[<-] back to date", "[v] proceed to confirm"}
    /\ ~InList(lower(strip(text)), Get(user_sessions[c], "available_shifts", <<>>))

\* C14: a malformed date at the date prompt, an unrecognized slot at the slot prompt
\* and an unrecognized choice at the confirm prompt each leave the session as it was,
\* pending list included, and leave the same step waiting for the chat's next message.
C14_InvalidInputReprompts ==
    [][\A c \in Talking, text \in Texts, conn \in Conns :
         (\/ ~IsDate(strip(text)) /\ handle_date_selection(c, text, conn)
          \/ UnrecognizedSlot(c, text) /\ handle_shift_selection(c, text, conn)
          \/ /\ strip(text) \notin {"Confirm All", "Cancel All"}
             /\ handle_confirmation(c, text, conn))
         => /\ user_sessions'[c] = user_sessions[c]
            /\ next_step'[c] = next_step[c]]_vars

-----------------------------------------------------------------------------
(* A fully booked date.  Student 7654321 has selected every shift of       *)
(* 2026-11-03 in one session and sent Confirm All: the table holds the six *)
(* rows, the chat's session is popped and no step is waiting; the worker   *)
(* that served the date and the worker that served the Confirm have closed *)
(* their connections.  The steps are those of the bot.                     *)

FullPending == [i \in 1..6 |-> [date |-> Today0, shift |-> (day_shifts \o night_shifts)[i]]]

FullInit ==
    /\ bookings = InsertAll(EmptyBag, "7654321", FullPending)
    /\ user_sessions = [c \in Chats |-> EmptyDict]
    /\ next_step = [c \in Chats |-> NoStep]
    /\ thread_local = Pool(NumThreads - 2, 0, 2)
    /\ today = Today0
    /\ reply = [Reply(1, "booked") EXCEPT !.summary = FullPending]

SpecFull == FullInit /\ [][Next]_vars

\* C15: when the availability query finds no shift left on a date, the session is
\* told so, no slot-selection step is entered, and handle_date_selection waits for
\* the chat's next message, so that another date can be submitted.
C15_NoAvailabilityReprompts ==
    (reply.kind \in {"available", "no_available"} /\ reply.shifts = <<>>)
        => /\ reply.kind = "no_available"
           /\ next_step[reply.chat].fn = "handle_date_selection"

\* every row of b is in b2 at least as many times
OnlyAdded(b, b2) == \A r \in BagToSet(b) : CopiesIn(r, b2) >= CopiesIn(r, b)

\* every row of b2 is in b exactly as many times: rows of b are gone whole or kept
OnlyRemoved(b, b2) == \A r \in BagToSet(b2) : CopiesIn(r, b2) = CopiesIn(r, b)

\* C16: the table changes only in a step of handle_confirmation on Confirm All, which
\* only adds rows, and in a step of handle_cancel, which only removes rows; login,
\* date submission, slot selection, summary and Cancel All leave it as it was, and no
\* step replaces a row by another.
C16_OnlyConfirmAndCancelWrite ==
    [][bookings' # bookings =>
         \/ /\ \E c \in Talking, conn \in Conns : handle_confirmation(c, "Confirm All", conn)
            /\ OnlyAdded(bookings, bookings')
         \/ /\ \E c \in Talking, conn \in Conns : handle_cancel(c, "/cancel", conn)
            /\ OnlyRemoved(bookings, bookings')]_vars

\* C16, its case: rows were committed and a /cancel has removed some of them, the
\* rows of another identity staying in the table.
C16_Witness ==
    /\ reply.kind = "cancelled"
    /\ bookings # EmptyBag

\* C17: Confirm All run on a usable connection with selections pending leaves, for
\* every pending (date, slot) not booked on that date before, exactly one row with
\* the session's student id, that date and that slot, and leaves the rows of a
\* (date, slot) that was already booked as they were.
C17_ConfirmInsertsEachOnce ==
    [][\A c \in Talking, conn \in Conns \ {"closed"} :
         (Pending(c) # <<>> /\ handle_confirmation(c, "Confirm All", conn))
         => \A p \in Range(Pending(c)) :
              LET row == Row(SessionId(c), isoformat(p.date), p.shift)
              IN IF RowsFor(bookings, row.shift_date, row.shift_type) = 0
                 THEN CopiesIn(row, bookings') = 1
                 ELSE CopiesIn(row, bookings') = CopiesIn(row, bookings)]_vars

\* the pending selections of chat c dated from day lo to day hi
PendingBetween(c, lo, hi) ==
    Cardinality({i \in DOMAIN Pending(c) : Pending(c)[i].date \in lo..hi})

\* the committed and the pending bookings of chat c's identity in the Monday-Sunday
\* week, and in the month, of day d
WeekLoad(c, d) ==
    WeeklyCount(bookings, SessionId(c), d)
        + PendingBetween(c, d - weekday(d), d - weekday(d) + 6)
MonthLoad(c, d) ==
    MonthlyCount(bookings, SessionId(c), d) + PendingBetween(c, MonthFirst, MonthLast)

C19_OpenHandle == reply.kind # "ProgrammingError"

\* C20: a slot selection refused with the one-shift-per-day message or with the limit
\* message leaves the session and its pending list as they were and leaves
\* handle_shift_selection waiting, so that the chat's next message can select another
\* slot, go back to the date prompt or proceed to the summary.
C20_RejectionKeepsSlotPrompt ==
    [][\A c \in Talking, text \in ShiftTexts, conn \in Conns :
         (/\ handle_shift_selection(c, text, conn)
          /\ reply'.kind \in {"one_per_day", "limit"})
         => /\ user_sessions'[c] = user_sessions[c]
            /\ next_step'[c].fn = "handle_shift_selection"]_vars

====
